---- MODULE Spec2Model ----
(***************************************************************************)
(* State-machine model of the coaster REST server (src/main.go).           *)
(*                                                                         *)
(* Every request is served by its own goroutine (net/http); a goroutine is *)
(* a worker with a program counter.  Steps that touch only the request's   *)
(* own ResponseWriter and locals are merged into one action; every point   *)
(* where a handler touches the shared map or the mutex is its own action,  *)
(* so that every interleaving of the shared accesses is explored.          *)
(***************************************************************************)
EXTENDS Integers, Sequences, FiniteSets, TLC

\* ---- bounds of the model -------------------------------------------------
NumWorkers == 2      \* request goroutines that can be in flight together
MaxRequests == 3     \* requests served in one behaviour
MaxTicks == 1        \* times the wall clock is seen to advance

\* ---- net/http status codes used by main.go -------------------------------
StatusOK == 200
StatusFound == 302
StatusBadRequest == 400
StatusUnauthorized == 401
StatusNotFound == 404
StatusMethodNotAllowed == 405
StatusUnsupportedMediaType == 415
StatusInternalServerError == 500

VARIABLES
    store,          \* coasterHandlers.store : map[string]coaster
    mutex,          \* coasterHandlers.Mutex : 0 = unlocked, else the holder
    adminPassword,  \* adminPortal.password
    now,            \* what time.Now().UnixNano() returns when read
    pc,             \* position of every request goroutine
    req,            \* the *http.Request each goroutine serves
    resp,           \* the http.ResponseWriter of each goroutine
    loc,            \* the handler's local variables
    served,         \* requests started so far (bounds the behaviour)
    posts           \* history: the POSTs that returned, in order of return

vars == <<store, mutex, adminPassword, now, pc, req, resp, loc, served, posts>>

Workers == 1..NumWorkers

\* ---- JSON values ----------------------------------------------------------
\* A JSON object is a function from member names to tagged values.
Str(s) == <<"string", s>>
Num(n) == <<"number", n>>
Absent == <<"absent", 0>>
Member(obj, key) == IF key \in DOMAIN obj THEN obj[key] ELSE Absent

\* type coaster struct (zero value)
ZeroCoaster == [Name |-> "", Manufactur |-> "", ID |-> "", InPark |-> "", Height |-> 0]

\* json.Unmarshal(bodyBytes, &coasterBody): a syntax error leaves the target
\* untouched; a member of the wrong JSON type is skipped and reported, the
\* other members are still decoded; members matching no tag are ignored.
StrMember(obj, tag) ==
    IF tag \in DOMAIN obj /\ obj[tag][1] = "string" THEN obj[tag][2] ELSE ""
IntMember(obj, tag) ==
    IF tag \in DOMAIN obj /\ obj[tag][1] = "number" THEN obj[tag][2] ELSE 0
TypeMismatch(obj) ==
    \/ \E tag \in {"name", "manufactur", "id", "inPark"} :
          tag \in DOMAIN obj /\ obj[tag][1] # "string"
    \/ "height" \in DOMAIN obj /\ obj["height"][1] # "number"
Unmarshal(bytes) ==
    IF ~bytes.syntaxOk
    THEN [err |-> TRUE, val |-> ZeroCoaster]
    ELSE [err |-> TypeMismatch(bytes.obj),
          val |-> [Name       |-> StrMember(bytes.obj, "name"),
                   Manufactur |-> StrMember(bytes.obj, "manufactur"),
                   ID         |-> StrMember(bytes.obj, "id"),
                   InPark     |-> StrMember(bytes.obj, "inPark"),
                   Height     |-> IntMember(bytes.obj, "height")]]

\* json.Marshal(coaster): one member per struct tag.
Marshal(c) ==
    [name       |-> Str(c.Name),
     manufactur |-> Str(c.Manufactur),
     id         |-> Str(c.ID),
     inPark     |-> Str(c.InPark),
     height     |-> Num(c.Height)]

\* fmt.Sprintf("%d", n) for n >= 0
Digit == <<"0", "1", "2", "3", "4", "5", "6", "7", "8", "9">>
RECURSIVE Itoa(_)
Itoa(n) == IF n < 10 THEN Digit[n + 1] ELSE Itoa(n \div 10) \o Digit[(n % 10) + 1]

\* ---- http.ResponseWriter --------------------------------------------------
\* status 0 = header not written yet.  Only the first WriteHeader counts; a
\* Write before any WriteHeader sends 200; a handler that returns without
\* writing anything sends 200 with an empty body.
NoResp == [status |-> 0, body |-> <<>>, location |-> ""]
WriteHeader(w, code) == IF w.status = 0 THEN [w EXCEPT !.status = code] ELSE w
Write(w, chunk) ==
    [WriteHeader(w, StatusOK) EXCEPT !.body = Append(w.body, chunk)]
Finish(w) == WriteHeader(w, StatusOK)

Text(s) == <<"text", s>>
Json(obj) == <<"json", obj>>
JsonArray(objs) == <<"jsonarray", objs>>

\* ---- requests --------------------------------------------------------------
NoBody == [readErr |-> FALSE, syntaxOk |-> FALSE, obj |-> <<>>]
NoReq == [kind |-> "none", method |-> "", ct |-> "", body |-> NoBody,
          url |-> <<>>, auth |-> <<FALSE, "", "">>]
NoLoc == [coasterBody |-> ZeroCoaster, err |-> FALSE, stored |-> FALSE,
          ids |-> <<>>, coasters |-> <<>>, ok |-> FALSE,
          target |-> "", seen |-> 0, snap |-> <<>>]

\* request bodies sent to POST /coasters
FullBody ==
    [readErr |-> FALSE, syntaxOk |-> TRUE,
     obj |-> [id |-> Str("mine"), name |-> Str("Taron"),
              inPark |-> Str("Phantasialand"),
              manufacturer |-> Str("Intamin"), height |-> Num(30)]]
TypeErrBody ==
    [readErr |-> FALSE, syntaxOk |-> TRUE,
     obj |-> [name |-> Str("Taron"), height |-> Str("tall")]]
SyntaxErrBody == [readErr |-> FALSE, syntaxOk |-> FALSE, obj |-> <<>>]
ReadErrBody == [readErr |-> TRUE, syntaxOk |-> FALSE, obj |-> <<>>]

\* the (content-type, body) pairs clients send; "" is an absent header
PostInputs ==
    { <<"application/json", FullBody>>,
      <<"application/json", TypeErrBody>>,
      <<"application/json", SyntaxErrBody>>,
      <<"application/json", ReadErrBody>>,
      <<"text/plain", FullBody>>,
      <<"", SyntaxErrBody>> }

\* ---- the clock -------------------------------------------------------------
ClockStart == 9
\* time.Now().UnixNano(): the wall clock, read at whatever value it has; two
\* reads with no tick of the clock between them return the same number.
UnixNano == now

Tick ==
    /\ now < ClockStart + MaxTicks
    /\ now' = now + 1
    /\ UNCHANGED <<store, mutex, adminPassword, pc, req, resp, loc, served, posts>>

\* ---- sync.Mutex --------------------------------------------------------------
CanLock == mutex = 0

\* ---- the store (a Go map) ---------------------------------------------------
EmptyStore == [id \in {} |-> ZeroCoaster]
\* h.store[id] = c
Put(m, id, c) == [k \in (DOMAIN m) \cup {id} |-> IF k = id THEN c ELSE m[k]]
\* len(h.store)
MapLen(m) == Cardinality(DOMAIN m)
\* for id := range h.store: each key once, in an order Go leaves unspecified
RangeOrders(m) ==
    {o \in [1..MapLen(m) -> DOMAIN m] : \A k \in DOMAIN m : \E i \in 1..MapLen(m) : o[i] = k}

\* ---- startup -----------------------------------------------------------------
EnvPasswords == {"", "s3cret", "hunter2"}
\* newAdminPortal: panics when ADMIN_PASSWORD is empty, so no portal exists
newAdminPortal(env) == [ok |-> env # "", password |-> env]

Init ==
    /\ \E env \in EnvPasswords :
          /\ newAdminPortal(env).ok
          /\ adminPassword = newAdminPortal(env).password
    /\ store = EmptyStore
    /\ mutex = 0
    /\ now = ClockStart
    /\ pc = [p \in Workers |-> "idle"]
    /\ req = [p \in Workers |-> NoReq]
    /\ resp = [p \in Workers |-> NoResp]
    /\ loc = [p \in Workers |-> NoLoc]
    /\ served = 0
    /\ posts = <<>>

\* ---- helpers for the per-goroutine variables --------------------------------
Goto(p, label) == pc' = [pc EXCEPT ![p] = label]
Accept(p, r) ==
    /\ pc[p] = "idle"
    /\ served < MaxRequests
    /\ served' = served + 1
    /\ req' = [req EXCEPT ![p] = r]

\* ---- coasterHandlers.coasters : /coasters ------------------------------------
\* case "POST": h.post(w, r), up to the h.Lock() call.  None of the three
\* error branches returns, so each later step still runs.
postDecode(ct, body) ==
    LET w1 == IF body.readErr
              THEN Write(WriteHeader(NoResp, StatusInternalServerError), Text("read error"))
              ELSE NoResp
        w2 == IF ct # "application/json"
              THEN Write(WriteHeader(w1, StatusUnsupportedMediaType), Text("Need type of application/json"))
              ELSE w1
        u  == Unmarshal(body)
        w3 == IF u.err
              THEN Write(WriteHeader(w2, StatusBadRequest), Text("unmarshal error"))
              ELSE w2
    IN  [w |-> w3, coasterBody |-> u.val, err |-> u.err]

CoastersPost(p) ==
    \E in \in PostInputs : LET ct == in[1]  body == in[2] IN
        /\ Accept(p, [NoReq EXCEPT !.kind = "post", !.method = "POST",
                                   !.ct = ct, !.body = body])
        /\ resp' = [resp EXCEPT ![p] = postDecode(ct, body).w]
        /\ loc' = [loc EXCEPT ![p] = [NoLoc EXCEPT
                      !.coasterBody = postDecode(ct, body).coasterBody,
                      !.err = postDecode(ct, body).err]]
        /\ Goto(p, "post_lock")
        /\ UNCHANGED <<store, mutex, adminPassword, now, posts>>

\* h.Lock()
PostLock(p) ==
    /\ pc[p] = "post_lock"
    /\ CanLock
    /\ mutex' = p
    /\ Goto(p, "post_store")
    /\ UNCHANGED <<store, adminPassword, now, req, resp, loc, served, posts>>

\* coasterBody.ID = fmt.Sprintf("%d", time.Now().UnixNano())
NewID == Itoa(UnixNano)

\* h.store[coasterBody.ID] = coasterBody
PostStore(p) ==
    LET c == [loc[p].coasterBody EXCEPT !.ID = NewID]
    IN  /\ pc[p] = "post_store"
        /\ store' = Put(store, c.ID, c)
        /\ loc' = [loc EXCEPT ![p].coasterBody = c, ![p].stored = TRUE]
        /\ Goto(p, "post_return")
        /\ UNCHANGED <<mutex, adminPassword, now, req, resp, served, posts>>

\* return: the deferred h.Unlock() and r.Body.Close() run; nothing was written
\* on the success path, so net/http sends 200 with an empty body.
PostReturn(p) ==
    /\ pc[p] = "post_return"
    /\ mutex' = 0
    /\ resp' = [resp EXCEPT ![p] = Finish(resp[p])]
    /\ posts' = Append(posts, [id |-> loc[p].coasterBody.ID,
                                ct |-> req[p].ct,
                                body |-> req[p].body,
                                err |-> loc[p].err,
                                coaster |-> loc[p].coasterBody])
    /\ Goto(p, "done")
    /\ UNCHANGED <<store, adminPassword, now, req, loc, served>>

\* default: any other method
OtherMethods == {"DELETE"}
CoastersOther(p) ==
    \E m \in OtherMethods :
        /\ Accept(p, [NoReq EXCEPT !.kind = "other", !.method = m])
        /\ resp' = [resp EXCEPT ![p] =
              Write(WriteHeader(NoResp, StatusMethodNotAllowed), Text("Method not allowed"))]
        /\ Goto(p, "done")
        /\ UNCHANGED <<store, mutex, adminPassword, now, loc, posts>>

\* case "GET": h.get(w, r)
CoastersGet(p) ==
    /\ Accept(p, [NoReq EXCEPT !.kind = "get", !.method = "GET"])
    /\ loc' = [loc EXCEPT ![p] = [NoLoc EXCEPT !.seen = Len(posts)]]
    /\ resp' = [resp EXCEPT ![p] = NoResp]
    /\ Goto(p, "get_lock")
    /\ UNCHANGED <<store, mutex, adminPassword, now, posts>>

GetLock(p) ==
    /\ pc[p] = "get_lock"
    /\ CanLock
    /\ mutex' = p
    /\ Goto(p, "get_copy")
    /\ UNCHANGED <<store, adminPassword, now, req, resp, loc, served, posts>>

\* coasters := make([]coaster, len(h.store)); the range loop; h.Unlock()
GetCopy(p) ==
    /\ pc[p] = "get_copy"
    /\ \E o \in RangeOrders(store) :
          loc' = [loc EXCEPT ![p].coasters = [i \in 1..MapLen(store) |-> store[o[i]]],
                             ![p].snap = store]
    /\ mutex' = 0
    /\ Goto(p, "get_respond")
    /\ UNCHANGED <<store, adminPassword, now, req, resp, served, posts>>

\* json.Marshal(coasters) cannot fail for []coaster; 200 and the array
GetRespond(p) ==
    /\ pc[p] = "get_respond"
    /\ resp' = [resp EXCEPT ![p] =
          Write(WriteHeader(resp[p], StatusOK),
                JsonArray([i \in 1..Len(loc[p].coasters) |-> Marshal(loc[p].coasters[i])]))]
    /\ Goto(p, "done")
    /\ UNCHANGED <<store, mutex, adminPassword, now, req, loc, served, posts>>

\* the goroutine of a served request ends; the slot takes the next request
Recycle(p) ==
    /\ pc[p] = "done"
    /\ pc' = [pc EXCEPT ![p] = "idle"]
    /\ req' = [req EXCEPT ![p] = NoReq]
    /\ resp' = [resp EXCEPT ![p] = NoResp]
    /\ loc' = [loc EXCEPT ![p] = NoLoc]
    /\ UNCHANGED <<store, mutex, adminPassword, now, served, posts>>

\* ---- coasterHandlers.getCoaster : /coasters/... ------------------------------
\* strings.Split(r.URL.String(), "/"): a URL is modelled by its segments, so
\* "/coasters/9" is <<"", "coasters", "9">>.
StoredIds == {Itoa(t) : t \in ClockStart..(ClockStart + MaxTicks)}
UrlIds == StoredIds \cup {"doesnotexist", "random"}
Urls == {<<"", "coasters", id>> : id \in UrlIds} \cup {<<"", "coasters", "random", "x">>}

getCoaster(p) ==
    \E url \in Urls :
        /\ Accept(p, [NoReq EXCEPT !.kind = "getCoaster", !.method = "GET", !.url = url])
        /\ loc' = [loc EXCEPT ![p] = [NoLoc EXCEPT !.seen = Len(posts)]]
        /\ IF Len(url) # 3
           THEN /\ resp' = [resp EXCEPT ![p] =
                       Write(WriteHeader(NoResp, StatusNotFound),
                             Text("The url that you request is not found"))]
                /\ Goto(p, "done")
           ELSE /\ resp' = [resp EXCEPT ![p] = NoResp]
                /\ IF url[3] = "random" THEN Goto(p, "rand_len") ELSE Goto(p, "gc_lock")
        /\ UNCHANGED <<store, mutex, adminPassword, now, posts>>

GcLock(p) ==
    /\ pc[p] = "gc_lock"
    /\ CanLock
    /\ mutex' = p
    /\ Goto(p, "gc_lookup")
    /\ UNCHANGED <<store, adminPassword, now, req, resp, loc, served, posts>>

\* dataCoaster, ok := h.store[id]; h.Unlock()
GcLookup(p) ==
    LET id == req[p].url[3]
    IN  /\ pc[p] = "gc_lookup"
        /\ loc' = [loc EXCEPT ![p].ok = id \in DOMAIN store,
                              ![p].coasterBody =
                                  IF id \in DOMAIN store THEN store[id] ELSE ZeroCoaster]
        /\ mutex' = 0
        /\ Goto(p, "gc_respond")
        /\ UNCHANGED <<store, adminPassword, now, req, resp, served, posts>>

GcRespond(p) ==
    /\ pc[p] = "gc_respond"
    /\ resp' = [resp EXCEPT ![p] =
          IF ~loc[p].ok
          THEN Write(WriteHeader(resp[p], StatusNotFound), Text("No content found for ID"))
          ELSE Write(WriteHeader(resp[p], StatusOK), Json(Marshal(loc[p].coasterBody)))]
    /\ Goto(p, "done")
    /\ UNCHANGED <<store, mutex, adminPassword, now, req, loc, served, posts>>

\* ---- coasterHandlers.getRandomCoaster ----------------------------------------
\* ids := make([]string, len(h.store)) : the map's length is read before
\* h.Lock().  The read races with a concurrent h.store[id] = c; it yields the
\* length before or after that write, which are the two interleavings here.
RandLen(p) ==
    /\ pc[p] = "rand_len"
    /\ loc' = [loc EXCEPT ![p].ids = [i \in 1..MapLen(store) |-> ""]]
    /\ Goto(p, "rand_lock")
    /\ UNCHANGED <<store, mutex, adminPassword, now, req, resp, served, posts>>

RandLock(p) ==
    /\ pc[p] = "rand_lock"
    /\ CanLock
    /\ mutex' = p
    /\ Goto(p, "rand_fill")
    /\ UNCHANGED <<store, adminPassword, now, req, resp, loc, served, posts>>

\* for id := range h.store { ids[i] = id; i++ }; h.Unlock()
\* With more keys than len(ids) the assignment ids[i] = id panics (index out
\* of range) before h.Unlock() is reached; net/http recovers the panic and
\* drops the connection, the mutex stays locked.
RandFill(p) ==
    /\ pc[p] = "rand_fill"
    /\ IF MapLen(store) > Len(loc[p].ids)
       THEN /\ Goto(p, "panicked")
            /\ UNCHANGED <<mutex, loc>>
       ELSE /\ \E o \in RangeOrders(store) :
                  loc' = [loc EXCEPT ![p].ids =
                      [i \in 1..Len(loc[p].ids) |-> IF i <= MapLen(store) THEN o[i] ELSE ""],
                      ![p].snap = store]
            /\ mutex' = 0
            /\ Goto(p, "rand_pick")
    /\ UNCHANGED <<store, adminPassword, now, req, resp, served, posts>>

\* rand.Intn(n): a number in [0, n)
Intn(n) == 0..(n - 1)
\* the indices line 94 can select: rand.Intn(len(ids)-1)
RandChoices(ids) == Intn(Len(ids) - 1)

RandPick(p) ==
    LET ids == loc[p].ids
        redirect(target) ==
            [WriteHeader(resp[p], StatusFound) EXCEPT !.location = "/coasters/" \o target]
    IN  /\ pc[p] = "rand_pick"
        /\ IF Len(ids) = 0
           THEN /\ resp' = [resp EXCEPT ![p] = WriteHeader(resp[p], StatusNotFound)]
                /\ UNCHANGED loc
           ELSE IF Len(ids) = 1
           THEN /\ resp' = [resp EXCEPT ![p] = redirect(ids[1])]
                /\ loc' = [loc EXCEPT ![p].target = ids[1]]
           ELSE \E k \in RandChoices(ids) :
                    /\ resp' = [resp EXCEPT ![p] = redirect(ids[k + 1])]
                    /\ loc' = [loc EXCEPT ![p].target = ids[k + 1]]
        /\ Goto(p, "done")
        /\ UNCHANGED <<store, mutex, adminPassword, now, req, served, posts>>

\* ---- adminPortal.handler : /admin ---------------------------------------------
\* r.BasicAuth() returns (username, password, ok)
Usernames == {"admin", "root"}
Passwords == {"s3cret", "hunter2", ""}
Auths == {<<FALSE, "", "">>} \cup {<<TRUE, u, pw>> : u \in Usernames, pw \in Passwords}

\* a handler that forgets the username test
UnauthorizedIgnoresUsername(ok, username, password, secret) ==
    ~ok \/ password # secret

\* line 174: !ok || username != "admin" || password != a.password
Unauthorized(ok, username, password, secret) ==
    ~ok \/ username # "admin" \/ password # secret

Welcome == Text("<div><h2 style='color:orange;'>Wellcome, admin</h2></div>")

adminHandler(p) ==
    \E auth \in Auths :
        /\ Accept(p, [NoReq EXCEPT !.kind = "admin", !.method = "GET", !.auth = auth])
        /\ resp' = [resp EXCEPT ![p] =
              IF Unauthorized(auth[1], auth[2], auth[3], adminPassword)
              THEN Write(WriteHeader(NoResp, StatusUnauthorized), Text("401 unauthorized"))
              ELSE Write(NoResp, Welcome)]
        /\ loc' = [loc EXCEPT ![p] = NoLoc]
        /\ Goto(p, "done")
        /\ UNCHANGED <<store, mutex, adminPassword, now, posts>>

\* ---- the server ----------------------------------------------------------------
Next ==
    \/ Tick
    \/ \E p \in Workers :
        \/ CoastersPost(p) \/ PostLock(p) \/ PostStore(p) \/ PostReturn(p)
        \/ CoastersGet(p) \/ GetLock(p) \/ GetCopy(p) \/ GetRespond(p)
        \/ CoastersOther(p)
        \/ getCoaster(p) \/ GcLock(p) \/ GcLookup(p) \/ GcRespond(p)
        \/ RandLen(p) \/ RandLock(p) \/ RandFill(p) \/ RandPick(p)
        \/ adminHandler(p)
        \/ Recycle(p)

Spec == Init /\ [][Next]_vars

\* The admin portal alone: it shares no state with the coaster handlers, so
\* its requests are also checked on their own, where larger bounds are cheap.
AdminNext == \E p \in Workers : adminHandler(p) \/ Recycle(p)

AdminSpec == Init /\ [][AdminNext]_vars

\* ==== properties ================================================================
Done(p, kind) == pc[p] = "done" /\ req[p].kind = kind
IsIdLookup(p) == Done(p, "getCoaster") /\ Len(req[p].url) = 3 /\ req[p].url[3] # "random"
\* the POSTs that had returned when the request of goroutine p was accepted
PostsBefore(p) == {posts[i] : i \in 1..loc[p].seen}
\* a POST the claims call accepted: json content type, well-formed body
Accepted(e) == e.ct = "application/json" /\ ~e.err
\* the response is exactly one JSON document
OneJson(w) == Len(w.body) = 1 /\ w.body[1][1] = "json"
OneJsonArray(w) == Len(w.body) = 1 /\ w.body[1][1] = "jsonarray"
ArrayElems(w) == {w.body[1][2][i] : i \in 1..Len(w.body[1][2])}
IdsDistinct == \A i, j \in 1..Len(posts) : i # j => posts[i].id # posts[j].id

\* C1: every coaster accepted by POST /coasters gets a non-empty id that
\* replaces the client's, and every later GET /coasters/{id} with that id
\* returns 200 and a record equal to the posted one in name, inPark,
\* manufacturer and height, with the assigned id.
C1_PostedCoasterIsReturned ==
    /\ \A i \in 1..Len(posts) :
          Accepted(posts[i]) =>
              posts[i].id # "" /\ Str(posts[i].id) # Member(posts[i].body.obj, "id")
    /\ \A p \in Workers :
          IsIdLookup(p) =>
              \A e \in PostsBefore(p) :
                  (Accepted(e) /\ e.id = req[p].url[3]) =>
                      /\ resp[p].status = StatusOK
                      /\ OneJson(resp[p])
                      /\ \A k \in {"name", "inPark", "manufacturer", "height"} :
                            Member(resp[p].body[1][2], k) = Member(e.body.obj, k)
                      /\ Member(resp[p].body[1][2], "id") = Str(e.id)

\* C2: the ids assigned by POSTs are pairwise distinct; once every POST has
\* returned the store holds one entry per POST.
C2_PostIdsDistinct ==
    /\ IdsDistinct
    /\ (\A p \in Workers : pc[p] # "post_return") => MapLen(store) = Len(posts)

\* C3: a POST whose content type is not application/json is answered 415 and
\* stores nothing.
C3_WrongMediaTypeStoresNothing ==
    \A p \in Workers :
        (Done(p, "post") /\ req[p].ct # "application/json") =>
            resp[p].status = StatusUnsupportedMediaType /\ ~loc[p].stored

\* C4: a POST with content type application/json whose body does not
\* deserialize is answered 400, is assigned no id and stores nothing.
C4_MalformedBodyStoresNothing ==
    \A p \in Workers :
        (Done(p, "post") /\ req[p].ct = "application/json"
            /\ ~req[p].body.readErr /\ loc[p].err) =>
            /\ resp[p].status = StatusBadRequest
            /\ ~loc[p].stored
            /\ loc[p].coasterBody.ID = ""

\* the part of C5 that concerns the handler alone: the array is the store as
\* it was at the instant of the copy, each entry once
GetReturnsSnapshot(p) ==
    /\ resp[p].status = StatusOK
    /\ OneJsonArray(resp[p])
    /\ Len(resp[p].body[1][2]) = MapLen(loc[p].snap)
    /\ ArrayElems(resp[p]) = {Marshal(loc[p].snap[k]) : k \in DOMAIN loc[p].snap}

\* C5: GET /coasters returns 200 with exactly the store's coasters of one
\* instant, each once, and every coaster whose POST completed before the GET
\* started is among them.
C5_ListIsSnapshotWithAllCompleted ==
    \A p \in Workers :
        Done(p, "get") =>
            /\ GetReturnsSnapshot(p)
            /\ \A e \in PostsBefore(p) : Marshal(e.coaster) \in ArrayElems(resp[p])

\* C5 holds of every behaviour in which no two POSTs were given the same id
ListCompleteWhenIdsDistinct ==
    \A p \in Workers :
        (Done(p, "get") /\ IdsDistinct) =>
            /\ GetReturnsSnapshot(p)
            /\ \A e \in PostsBefore(p) : Marshal(e.coaster) \in ArrayElems(resp[p])

\* C6: with n > 1 ids in the snapshot, GET /coasters/random selects over the
\* full index range 0..n-1, the last index included.
C6_RandomCoversFullRange ==
    \A p \in Workers :
        (pc[p] = "rand_pick" /\ Len(loc[p].ids) > 1) =>
            RandChoices(loc[p].ids) = 0..(Len(loc[p].ids) - 1)

\* what the code does instead: the last index of the snapshot is never chosen
RandomNeverPicksLast ==
    \A p \in Workers :
        (Done(p, "getCoaster") /\ Len(loc[p].ids) > 1) =>
            loc[p].target # loc[p].ids[Len(loc[p].ids)]

\* C7: a POST that parses successfully is answered 201 with the created
\* coaster, id populated, as JSON.
C7_PostAnswersCreated ==
    \A p \in Workers :
        (Done(p, "post") /\ req[p].ct = "application/json"
            /\ ~req[p].body.readErr /\ ~loc[p].err) =>
            /\ resp[p].status = 201
            /\ OneJson(resp[p])
            /\ resp[p].body[1][2] = Marshal(loc[p].coasterBody)
            /\ loc[p].coasterBody.ID # ""

\* the answer a served /admin request must carry
AdminAnswer(p) ==
    LET granted == req[p].auth[1] /\ req[p].auth[2] = "admin"
                      /\ req[p].auth[3] = adminPassword
    IN  /\ granted => resp[p].status = StatusOK /\ resp[p].body = <<Welcome>>
        /\ ~granted => resp[p].status = StatusUnauthorized /\ Welcome # resp[p].body[1]
\* C8: GET /admin answers 200 with the welcome fragment exactly when the
\* request carries Basic credentials with username admin and the configured
\* password, and 401 otherwise; the configured password is never empty and
\* never changes.
C8_AdminRequiresCredentials ==
    /\ [](adminPassword # "" /\ \A p \in Workers : Done(p, "admin") => AdminAnswer(p))
    /\ [][adminPassword' = adminPassword]_vars

\* C8 witnesses: a granted and a refused request, answered side by side
C8_Witness ==
    \E p, q \in Workers :
        /\ Done(p, "admin") /\ resp[p].status = StatusOK
        /\ Done(q, "admin") /\ resp[q].status = StatusUnauthorized
        /\ req[q].auth[1] /\ req[q].auth[2] = "admin"

\* the positions from which the next step reads or writes h.store
StoreAccess == {"post_store", "get_copy", "gc_lookup", "rand_len", "rand_fill"}

\* C9: every read and write of the store, the read of its size for the id
\* snapshot included, happens under the lock; the snapshot holds the ids of
\* one instant and filling it never runs past its length.
C9_StoreAccessUnderLock ==
    \A p \in Workers :
        /\ pc[p] \in StoreAccess => mutex = p
        /\ pc[p] # "panicked"
        /\ pc[p] = "rand_pick" =>
               /\ Len(loc[p].ids) = MapLen(loc[p].snap)
               /\ {loc[p].ids[i] : i \in 1..Len(loc[p].ids)} = DOMAIN loc[p].snap

\* C10: a handler that has ended, by return or by abort, does not hold the
\* lock, so no waiting request is blocked for ever.
C10_EndedHandlerReleasedLock ==
    \A p \in Workers : pc[p] \in {"idle", "done", "panicked"} => mutex # p

====
